---- MODULE Spec2Model ----
(***************************************************************************)
(* The Redis command splitter (source/common/redis/command_splitter_impl.cc)*)
(* as a state machine: one splitter instance, one connection pool, one      *)
(* caller that issues a request and then may cancel or drop the handle it   *)
(* got back, and a pool that answers every live handle once.                *)
(*                                                                          *)
(* Strings are sequences of chunks.  A letter that takes part in case       *)
(* folding is a chunk of its own (<<"G","E","T">>); any other text is kept   *)
(* as one chunk (<<"no upstream host">>).  fmt::format is concatenation.     *)
(***************************************************************************)
EXTENDS Integers, Sequences, FiniteSets, TLC

\* Most keys of one MGET, and most key/value pairs of one MSET.
MaxKeys == 3

\* num_pending_responses_ and error_count_ are uint32_t.  A value is kept as its
\* 32-bit pattern read as a signed integer, so that 0 - 1 is -1, the pattern
\* of 2^32 - 1, and "n > 0" of an unsigned n is "n # 0".
Positive(n) == n # 0

-----------------------------------------------------------------------------
(* RespValue *)

\* A default-constructed RespValue of the given type: type(t) runs cleanup()
\* and leaves an empty string / empty array / zero integer.
RespValue(t) == [type |-> t, str |-> <<>>, int |-> 0, arr |-> <<>>]

\* RespValue(): the slots of a pre-sized vector<RespValue>.
DefaultRespValue == RespValue("Null")

\* A unique_ptr<RespValue> that holds nothing (after std::move).
NullPtr == RespValue("nullptr")

BulkString(s) == [RespValue("BulkString") EXCEPT !.str = s]
SimpleString(s) == [RespValue("SimpleString") EXCEPT !.str = s]
IntegerValue(n) == [RespValue("Integer") EXCEPT !.int = n]
ArrayValue(a) == [RespValue("Array") EXCEPT !.arr = a]

\* Utility::makeError
makeError(error) == [RespValue("Error") EXCEPT !.str = error]

\* An opaque text as a string of one chunk.
S(text) == <<text>>

\* fmt::format("wrong number of arguments for '{}' command", name)
WrongNumberOfArgumentsMessage(name) ==
    S("wrong number of arguments for '") \o name \o S("' command")

\* fmt::format("unsupported command '{}'", name)
UnsupportedCommandMessage(name) == S("unsupported command '") \o name \o S("'")

\* fmt::format("finished with {} error(s)", error_count_)
FinishedWithErrorsMessage(count) ==
    S("finished with ") \o S(ToString(count)) \o S(" error(s)")

-----------------------------------------------------------------------------
(* Case folding and the command map *)

UpperCase == <<"A","B","C","D","E","F","G","H","I","J","K","L","M",
               "N","O","P","Q","R","S","T","U","V","W","X","Y","Z">>
LowerCase == <<"a","b","c","d","e","f","g","h","i","j","k","l","m",
               "n","o","p","q","r","s","t","u","v","w","x","y","z">>

\* to_lower_table_: every byte maps to itself but 'A'..'Z'.
ToLowerChar(c) ==
    IF \E i \in 1..26 : UpperCase[i] = c
    THEN LowerCase[CHOOSE i \in 1..26 : UpperCase[i] = c]
    ELSE c

\* ToLowerTable::toLowerCase(string&)
toLowerCase(s) == [i \in 1..Len(s) |-> ToLowerChar(s[i])]

\* SupportedCommands::simpleCommands(), the part the requests below use.
simpleCommands == { <<"g","e","t">>, <<"s","e","t">> }
\* SupportedCommands::evalCommands()
evalCommands == { <<"e","v","a","l">>, <<"e","v","a","l","s","h","a">> }
\* SupportedCommands::mget() and mset()
mgetCommand == <<"m","g","e","t">>
msetCommand == <<"m","s","e","t">>

\* command_map_ after InstanceImpl::InstanceImpl: lower-cased name -> handler.
command_map_ ==
    [name \in { toLowerCase(c) : c \in simpleCommands \cup evalCommands
                                        \cup {mgetCommand, msetCommand} } |->
        IF name \in { toLowerCase(c) : c \in simpleCommands } THEN "simple"
        ELSE IF name \in { toLowerCase(c) : c \in evalCommands } THEN "eval"
        ELSE IF name = toLowerCase(mgetCommand) THEN "mget"
        ELSE "mset"]

-----------------------------------------------------------------------------
(* The inputs: keys, hosts, incoming requests, upstream replies *)

Keys == { S("a"), S("b") }
Hosts == { S("H1"), S("H2") }

\* An array of bulk strings: a command name followed by its arguments.
Command(name, args) ==
    ArrayValue(<<BulkString(name)>> \o [i \in 1..Len(args) |-> BulkString(args[i])])

KeySeqs == UNION { [1..n -> Keys] : n \in 1..MaxKeys }

\* MSET k1 1 k2 2 ...: the value of the i-th pair is the text of i.
Interleave(ks, nargs) ==
    [j \in 1..nargs |-> IF j % 2 = 1 THEN ks[(j + 1) \div 2] ELSE S(ToString(j \div 2))]

InvalidRequests ==
    { BulkString(<<"G","E","T">>),
      IntegerValue(3),
      ArrayValue(<<>>),
      ArrayValue(<<BulkString(<<"G","E","T">>)>>),
      ArrayValue(<<BulkString(<<"G","E","T">>), IntegerValue(3)>>),
      ArrayValue(<<IntegerValue(3), BulkString(S("a"))>>),
      ArrayValue(<<BulkString(<<"F","O","O">>), IntegerValue(3)>>) }

SimpleRequests ==
    { Command(name, <<k>>) : name \in { <<"G","E","T">>, <<"g","e","t">>, <<"G","e","T">> },
                             k \in Keys }
    \cup { Command(<<"S","E","T">>, <<k, S("1")>>) : k \in Keys }

UnsupportedRequests ==
    { Command(name, <<S("a")>>) : name \in { <<"F","O","O">>, <<"f","o","o">> } }

EvalRequests ==
    { Command(<<"E","V","A","L">>, <<S("script")>>),
      Command(<<"e","v","a","l">>, <<S("script"), S("0")>>),
      Command(<<"E","V","A","L","S","H","A">>, <<S("sha"), S("1")>>) }
    \cup { Command(<<"E","V","A","L">>, <<S("script"), numkeys, k>>) :
             numkeys \in { S("0"), S("1") }, k \in Keys }
    \cup { Command(<<"E","v","a","l","S","H","A">>, <<S("sha"), S("2"), k1, k2, S("arg1")>>) :
             k1 \in Keys, k2 \in Keys }

MGETRequests ==
    { Command(name, ks) : name \in { <<"M","G","E","T">> }, ks \in KeySeqs }
    \cup { Command(<<"m","G","e","t">>, <<S("a"), S("b")>>) }

\* MSET with an even and with an odd number of arguments.
MSETRequests ==
    UNION { { Command(<<"M","S","E","T">>, Interleave(ks, nargs)) :
                nargs \in { 2 * Len(ks) - 1, 2 * Len(ks) } } : ks \in KeySeqs }
    \cup { Command(<<"m","S","e","t">>, <<S("a"), S("1"), S("b")>>) }

Requests ==
    InvalidRequests \cup UnsupportedRequests \cup SimpleRequests \cup EvalRequests
        \cup MGETRequests \cup MSETRequests

\* What an upstream may answer that is not an array.
ScalarReplies ==
    { IntegerValue(5), RespValue("Null"), SimpleString(S("OK")), SimpleString(S("QUEUED")),
      makeError(S("boom")), BulkString(S("bar")) }

\* The elements of a well-formed MGET reply.
ElementReplies == { RespValue("Null"), BulkString(S("x")) }

\* Arrays of m elements, each Null or a bulk string.
WellFormedArrays(m) == { ArrayValue(a) : a \in [1..m -> ElementReplies] }

\* Arrays an MGET fragment of m keys must never get: one element too many, one
\* too few, or an element that is neither Null nor a bulk string.
MalformedArrays(m) ==
    { ArrayValue([i \in 1..(m + 1) |-> RespValue("Null")]),
      ArrayValue([i \in 1..(m - 1) |-> RespValue("Null")]),
      ArrayValue([i \in 1..m |-> IF i = 1 THEN IntegerValue(5) ELSE RespValue("Null")]) }

\* Everything the pool may hand to onResponse for a request of m keys.
UpstreamReplies(m) == ScalarReplies \cup WellFormedArrays(m) \cup MalformedArrays(m)

-----------------------------------------------------------------------------
(* State *)

VARIABLES
    NDEBUG,            \* the build: TRUE when ASSERT compiles to nothing
    getHost,           \* ConnPool::Instance::getHost, key -> host
    invalid_request_,  \* stats_.invalid_request_
    unsupported_command_,  \* stats_.unsupported_command_
    total_,            \* command_map_[name].total_
    incoming,          \* the request given to InstanceImpl::makeRequest
    returned,          \* what makeRequest returned: "nothing", "nullptr", "request"
    req,               \* the request object (SimpleRequest, EvalRequest, MGETRequest, MSETRequest)
    cancelled,         \* the caller called cancel() on the returned request
    callbacks,         \* the values given to SplitCallbacks::onResponse, in order
    getHost_calls,     \* how many times ConnPool::Instance::getHost was called
    pool,              \* every ConnPool::Instance::makeRequest call and its handle
    owned_at_reply,    \* per SplitCallbacks::onResponse call: the pool handles the
                       \* request object held (not yet cleared) when it was made
    assert_failed,     \* an ASSERT condition was false (whatever the build)
    aborted            \* the process ended in a failed ASSERT or NOT_REACHED

vars == <<NDEBUG, getHost, invalid_request_, unsupported_command_, total_, incoming,
          returned, req, cancelled, callbacks, owned_at_reply, getHost_calls, pool,
          assert_failed, aborted>>

\* The part of the state a handler works on.
World == [req |-> req, callbacks |-> callbacks, owned_at_reply |-> owned_at_reply,
          getHost_calls |-> getHost_calls, pool |-> pool, assert_failed |-> assert_failed, aborted |-> aborted]

\* No request object: before makeRequest, and when a handler builds none.
NoRequest ==
    [variant |-> "none", state |-> "none", handle_ |-> 0, pending_requests_ |-> <<>>,
     num_pending_responses_ |-> 0, error_count_ |-> 0, pending_response_ |-> NullPtr]

\* ASSERT(cond): aborts in a debug build, nothing with NDEBUG.
ASSERT(w, cond) ==
    IF cond THEN w ELSE [w EXCEPT !.assert_failed = TRUE, !.aborted = ~NDEBUG]

\* NOT_REACHED: always fatal.
NOT_REACHED(w) == [w EXCEPT !.aborted = TRUE]

\* The handle_ members of the request object that are not nullptr.
OwnedHandles(r) ==
    ({ r.handle_ } \cup { r.pending_requests_[i].handle_ : i \in DOMAIN r.pending_requests_ })
        \ { 0 }

\* SplitCallbacks::onResponse(value)
CallbacksOnResponse(w, value) ==
    [w EXCEPT !.callbacks = Append(@, value),
              !.owned_at_reply = Append(@, OwnedHandles(w.req))]

-----------------------------------------------------------------------------
(* The connection pool *)

\* ConnPool::Instance::makeRequest(key, request, callbacks): the call is logged;
\* it returns a handle (the call's number) unless the key's host is down.
PoolAccepts(key, down) == getHost[key] \notin down

PoolMakeRequest(w, key, request, child, down) ==
    [w EXCEPT !.pool = Append(@,
        [key |-> key, request |-> request, child |-> child,
         state |-> IF PoolAccepts(key, down) THEN "inflight" ELSE "none",
         cancels |-> 0, outcome |-> "pending", reply |-> NullPtr])]

\* The handle the last PoolMakeRequest returned: 0 is nullptr.
PoolLastHandle(w) ==
    IF w.pool[Len(w.pool)].state = "inflight" THEN Len(w.pool) ELSE 0

\* PoolRequest::cancel()
PoolCancel(w, h) ==
    [w EXCEPT !.pool[h].state = "cancelled", !.pool[h].cancels = @ + 1]

\* The pool is done with a handle once it has called onResponse or onFailure.
PoolAnswered(w, h, outcome, value) ==
    [w EXCEPT !.pool[h].state = "answered", !.pool[h].outcome = outcome,
              !.pool[h].reply = value]

-----------------------------------------------------------------------------
(* SingleServerRequest, SimpleRequest, EvalRequest *)

\* SingleServerRequest::~SingleServerRequest
SingleServerDestructor(w) ==
    [ASSERT(w, w.req.handle_ = 0) EXCEPT !.req.state = "destroyed"]

\* An onResponse that hands the value to the caller while handle_ is still set.
SingleServerOnResponseDeliverFirst(w, response) ==
    [CallbacksOnResponse(w, response) EXCEPT !.req.handle_ = 0]

\* SingleServerRequest::onResponse
SingleServerOnResponse(w, response) ==
    CallbacksOnResponse([w EXCEPT !.req.handle_ = 0], response)

\* SingleServerRequest::onFailure
SingleServerOnFailure(w) ==
    CallbacksOnResponse([w EXCEPT !.req.handle_ = 0], makeError(S("upstream failure")))

\* SingleServerRequest::cancel
SingleServerCancel(w) ==
    [PoolCancel(w, w.req.handle_) EXCEPT !.req.handle_ = 0]

\* A reply that names the command in lower case.
onWrongNumberOfArgumentsLowerCase(w, request) ==
    CallbacksOnResponse(w,
        makeError(WrongNumberOfArgumentsMessage(toLowerCase(request.arr[1].str))))

\* SplitRequestBase::onWrongNumberOfArguments
onWrongNumberOfArguments(w, request) ==
    CallbacksOnResponse(w, makeError(WrongNumberOfArgumentsMessage(request.arr[1].str)))

\* A create that hands the request object back whether or not the pool gave a
\* handle, and answers nothing.
SingleServerCreateAlwaysReturns(w, variant, key, incoming_request, down) ==
    LET w0 == [w EXCEPT !.req = [NoRequest EXCEPT !.variant = variant, !.state = "alive"]]
        w1 == PoolMakeRequest(w0, key, incoming_request, -1, down)
    IN  [w1 EXCEPT !.req.handle_ = PoolLastHandle(w1)]

\* The body shared by SimpleRequest::create and EvalRequest::create: one pool
\* request keyed on `key`; no handle is answered at once and nullptr returned
\* (request_ptr dies there).
SingleServerCreate(w, variant, key, incoming_request, down) ==
    LET w0 == [w EXCEPT !.req = [NoRequest EXCEPT !.variant = variant, !.state = "alive"]]
        w1 == PoolMakeRequest(w0, key, incoming_request, -1, down)
        w2 == [w1 EXCEPT !.req.handle_ = PoolLastHandle(w1)]
    IN  IF w2.req.handle_ = 0
        THEN SingleServerDestructor(
                 CallbacksOnResponse(w2, makeError(S("no upstream host"))))
        ELSE w2

\* SimpleRequest::create
SimpleRequestCreate(w, incoming_request, down) ==
    SingleServerCreate(w, "simple", incoming_request.arr[2].str, incoming_request, down)

\* A create that routes a script of two keys by its second key.
EvalRequestCreateSecondKey(w, incoming_request, down) ==
    IF Len(incoming_request.arr) < 4 THEN onWrongNumberOfArguments(w, incoming_request)
    ELSE SingleServerCreate(w, "eval",
             incoming_request.arr[IF Len(incoming_request.arr) >= 6 THEN 5 ELSE 4].str,
             incoming_request, down)

\* EvalRequest::create
EvalRequestCreate(w, incoming_request, down) ==
    IF Len(incoming_request.arr) < 4
    THEN onWrongNumberOfArguments(w, incoming_request)
    ELSE SingleServerCreate(w, "eval", incoming_request.arr[4].str, incoming_request, down)

-----------------------------------------------------------------------------
(* FragmentedRequest *)

\* Mutant: a destructor that cancels what is still live instead of asserting.
FragmentedDestructorCancels(w) ==
    LET RECURSIVE CancelFrom(_, _)
        CancelFrom(v, i) ==
            IF i > Len(v.req.pending_requests_) THEN v
            ELSE IF v.req.pending_requests_[i].handle_ # 0
                 THEN CancelFrom(
                          [v EXCEPT !.pool[v.req.pending_requests_[i].handle_].state = "cancelled",
                                    !.pool[v.req.pending_requests_[i].handle_].cancels = @ + 1,
                                    !.req.pending_requests_[i].handle_ = 0], i + 1)
                 ELSE CancelFrom(v, i + 1)
    IN  [CancelFrom(w, 1) EXCEPT !.req.state = "destroyed"]

\* FragmentedRequest::~FragmentedRequest
FragmentedDestructor(w) ==
    [ASSERT(w, \A i \in 1..Len(w.req.pending_requests_) :
                   w.req.pending_requests_[i].handle_ = 0)
        EXCEPT !.req.state = "destroyed"]

\* FragmentedRequest::cancel, the loop over pending_requests_ from position i.
RECURSIVE FragmentedCancelFrom(_, _)
FragmentedCancelFrom(w, i) ==
    IF i > Len(w.req.pending_requests_) THEN w
    ELSE IF w.req.pending_requests_[i].handle_ # 0
         THEN FragmentedCancelFrom(
                  [PoolCancel(w, w.req.pending_requests_[i].handle_)
                      EXCEPT !.req.pending_requests_[i].handle_ = 0], i + 1)
         ELSE FragmentedCancelFrom(w, i + 1)

\* Mutant: the loop stops after the first live handle.
FragmentedCancelFirst(w) ==
    IF \E i \in 1..Len(w.req.pending_requests_) : w.req.pending_requests_[i].handle_ # 0
    THEN LET i == CHOOSE i \in 1..Len(w.req.pending_requests_) :
                      /\ w.req.pending_requests_[i].handle_ # 0
                      /\ \A j \in 1..(i - 1) : w.req.pending_requests_[j].handle_ = 0
         IN  [PoolCancel(w, w.req.pending_requests_[i].handle_)
                 EXCEPT !.req.pending_requests_[i].handle_ = 0]
    ELSE w

\* Mutant: the loop cancels the pool request of every fragment, live or not.
FragmentedCancelAll(w) ==
    [w EXCEPT !.pool = [h \in 1..Len(w.pool) |->
                           [w.pool[h] EXCEPT !.state = "cancelled", !.cancels = @ + 1]],
              !.req.pending_requests_ =
                  [i \in 1..Len(w.req.pending_requests_) |->
                      [w.req.pending_requests_[i] EXCEPT !.handle_ = 0]]]

FragmentedCancel(w) == FragmentedCancelFrom(w, 1)

\* pending_response_->asArray()[response_index] of MGET (indexes count from 0).
SetSlot(w, response_index, value) ==
    [w EXCEPT !.req.pending_response_.arr[response_index + 1] = value]

\* --num_pending_responses_
Decrement(n) == n - 1

-----------------------------------------------------------------------------
(* MGETRequest *)

\* Mutant: a host's entry is overwritten by each new key instead of appended to.
RECURSIVE MGETRequestMapOverwrite(_, _, _)
MGETRequestMapOverwrite(incoming_request, i, request_map) ==
    IF i >= Len(incoming_request.arr) THEN request_map
    ELSE LET key == incoming_request.arr[i + 1].str
             host == getHost[key]
             key_and_index == [key |-> key, index |-> i - 1]
         IN  MGETRequestMapOverwrite(incoming_request, i + 1,
                 IF host \in DOMAIN request_map
                 THEN [request_map EXCEPT ![host] = <<key_and_index>>]
                 ELSE request_map @@ (host :> <<key_and_index>>))

\* The conn_pool.getHost(key) calls that built a request_map: one per entry
\* (lines 111 and 231); every entry has an index of its own.
GetHostCalls(request_map) ==
    Cardinality(UNION { { request_map[host][n].index : n \in DOMAIN request_map[host] } :
                            host \in DOMAIN request_map })

\* A map that puts each new key in front of the keys its host already has.
RECURSIVE MGETRequestMapPrepend(_, _, _)
MGETRequestMapPrepend(incoming_request, i, request_map) ==
    IF i >= Len(incoming_request.arr) THEN request_map
    ELSE LET key == incoming_request.arr[i + 1].str
             host == getHost[key]
             key_and_index == [key |-> key, index |-> i - 1]
         IN  MGETRequestMapPrepend(incoming_request, i + 1,
                 IF host \in DOMAIN request_map
                 THEN [request_map EXCEPT ![host] = <<key_and_index>> \o @]
                 ELSE request_map @@ (host :> <<key_and_index>>))

\* MGETRequest::create, lines 108-120: host -> the (key, original index) pairs
\* of its keys, in the order of the request.  i is the loop variable.
RECURSIVE MGETRequestMap(_, _, _)
MGETRequestMap(incoming_request, i, request_map) ==
    IF i >= Len(incoming_request.arr) THEN request_map
    ELSE LET key == incoming_request.arr[i + 1].str
             host == getHost[key]
             key_and_index == [key |-> key, index |-> i - 1]
         IN  MGETRequestMap(incoming_request, i + 1,
                 IF host \in DOMAIN request_map
                 THEN [request_map EXCEPT ![host] = Append(@, key_and_index)]
                 ELSE request_map @@ (host :> <<key_and_index>>))

\* Mutant: a protocol error overwrites every slot of the reply.
MGETProtocolErrorAllSlots(w, response_indexes, k) ==
    [w EXCEPT !.req.pending_response_.arr =
                  [i \in 1..Len(@) |-> makeError(S("upstream protocol error"))],
              !.req.error_count_ = @ + Len(response_indexes)]

\* Lines 171-181: Integer, Null, SimpleString.
RECURSIVE MGETProtocolError(_, _, _)
MGETProtocolError(w, response_indexes, k) ==
    IF k > Len(response_indexes) THEN w
    ELSE MGETProtocolError(
             [SetSlot(w, response_indexes[k], makeError(S("upstream protocol error")))
                 EXCEPT !.req.error_count_ = @ + 1],
             response_indexes, k + 1)

\* Lines 182-190: Error, BulkString.  The slot takes the value's type and swaps
\* strings with it, so the value keeps the slot's (empty) string for the next slot.
RECURSIVE MGETPropagate(_, _, _, _)
MGETPropagate(w, value, response_indexes, k) ==
    IF k > Len(response_indexes) THEN w
    ELSE LET slot == RespValue(value.type)
         IN  MGETPropagate(
                 [SetSlot(w, response_indexes[k], [slot EXCEPT !.str = value.str])
                     EXCEPT !.req.error_count_ = @ + 1],
                 [value EXCEPT !.str = slot.str],
                 response_indexes, k + 1)

\* Mutant: the k-th element goes to slot k - 1, not to response_indexes[k - 1].
RECURSIVE MGETNestedByPosition(_, _, _, _)
MGETNestedByPosition(w, nested, response_indexes, k) ==
    IF k > Len(response_indexes) \/ w.aborted THEN w
    ELSE IF nested[k].type \in {"Null", "BulkString"}
         THEN MGETNestedByPosition(
                  SetSlot(w, k - 1, [RespValue(nested[k].type) EXCEPT !.str = nested[k].str]),
                  nested, response_indexes, k + 1)
         ELSE [w EXCEPT !.aborted = TRUE]

\* Lines 193-207: the elements of an Array reply, nested[k] being value->asArray()[k-1].
RECURSIVE MGETNested(_, _, _, _)
MGETNested(w, nested, response_indexes, k) ==
    IF k > Len(response_indexes) \/ w.aborted THEN w
    ELSE LET nested_value == nested[k]
             typed == SetSlot(w, response_indexes[k], RespValue(nested_value.type))
         IN  CASE nested_value.type = "Null" ->
                    MGETNested(typed, nested, response_indexes, k + 1)
               [] nested_value.type = "BulkString" ->
                    MGETNested(SetSlot(w, response_indexes[k],
                                       [RespValue(nested_value.type)
                                           EXCEPT !.str = nested_value.str]),
                               nested, response_indexes, k + 1)
               [] OTHER -> NOT_REACHED(typed)

\* Mutant: at zero the reply is delivered only when no error was counted.
MGETFinishOnlyClean(w) ==
    LET w2 == [w EXCEPT !.req.num_pending_responses_ = @ - 1]
    IN  IF w2.req.num_pending_responses_ = 0 /\ w2.req.error_count_ = 0
        THEN [CallbacksOnResponse(w2, w2.req.pending_response_)
                 EXCEPT !.req.pending_response_ = NullPtr]
        ELSE w2

\* Lines 212-216.
MGETFinish(w) ==
    LET w1 == ASSERT(w, Positive(w.req.num_pending_responses_))
        w2 == [w1 EXCEPT !.req.num_pending_responses_ = Decrement(@)]
    IN  IF w1.aborted THEN w1
        ELSE IF w2.req.num_pending_responses_ = 0
             THEN [CallbacksOnResponse(w2, w2.req.pending_response_)
                      EXCEPT !.req.pending_response_ = NullPtr]
             ELSE w2

\* MGETRequest::onChildResponse.  `padding` is what the reads past the end of a
\* too short array yield when the size assertion is compiled out.
MGETonChildResponse(w, value, index, padding) ==
    LET response_indexes == w.req.pending_requests_[index + 1].response_indexes_
        w0 == [w EXCEPT !.req.pending_requests_[index + 1].handle_ = 0]
        sized == ASSERT(w0, Len(response_indexes) = Len(value.arr))
        w1 == CASE value.type \in {"Integer", "Null", "SimpleString"} ->
                     MGETProtocolError(w0, response_indexes, 1)
                [] value.type \in {"Error", "BulkString"} ->
                     MGETPropagate(w0, value, response_indexes, 1)
                [] value.type = "Array" ->
                     MGETNested(sized, value.arr \o padding, response_indexes, 1)
    IN  IF w1.aborted THEN w1 ELSE MGETFinish(w1)

\* Lines 139-162: one fragment per entry of request_map, in the map's iteration
\* order `order`; a fragment the pool takes no handle for is answered at once.
RECURSIVE MGETSubmit(_, _, _, _, _)
MGETSubmit(w, request_map, order, request_index, down) ==
    IF request_index >= Len(order) THEN w
    ELSE LET key_index_pairs == request_map[order[request_index + 1]]
             mget == Command(<<"M","G","E","T">>,
                             [i \in 1..Len(key_index_pairs) |-> key_index_pairs[i].key])
             response_indexes ==
                 [i \in 1..Len(key_index_pairs) |-> key_index_pairs[i].index]
             w1 == PoolMakeRequest(w, mget.arr[2].str, mget, request_index, down)
             w2 == [w1 EXCEPT !.req.pending_requests_ = Append(@,
                        [index_ |-> request_index, response_indexes_ |-> response_indexes,
                         handle_ |-> PoolLastHandle(w1)])]
             w3 == IF PoolLastHandle(w1) = 0
                   THEN MGETonChildResponse(w2, makeError(S("no upstream host")),
                                            request_index, <<>>)
                   ELSE w2
         IN  MGETSubmit(w3, request_map, order, request_index + 1, down)

\* The orders an unordered_map may be iterated in.
IterationOrders(request_map) ==
    { order \in [1..Cardinality(DOMAIN request_map) -> DOMAIN request_map] :
        \A i, j \in DOMAIN order : i # j => order[i] # order[j] }

\* A create that expects one child response per key, not one per host.
MGETRequestCreatePerKey(w, incoming_request, order, down) ==
    LET request_map == MGETRequestMap(incoming_request, 1, <<>>)
        w0 == [w EXCEPT !.getHost_calls = @ + GetHostCalls(request_map),
                        !.req = [NoRequest EXCEPT
                   !.variant = "mget", !.state = "alive",
                   !.num_pending_responses_ = Len(incoming_request.arr) - 1,
                   !.pending_response_ =
                       ArrayValue([i \in 1..(Len(incoming_request.arr) - 1) |->
                                       DefaultRespValue])]]
        w1 == MGETSubmit(w0, request_map, order, 0, down)
    IN  IF Positive(w1.req.num_pending_responses_) THEN w1 ELSE FragmentedDestructor(w1)

\* MGETRequest::create
MGETRequestCreate(w, incoming_request, order, down) ==
    LET request_map == MGETRequestMap(incoming_request, 1, <<>>)
        w0 == [w EXCEPT !.getHost_calls = @ + GetHostCalls(request_map),
                        !.req = [NoRequest EXCEPT
                   !.variant = "mget", !.state = "alive",
                   !.num_pending_responses_ = Cardinality(DOMAIN request_map),
                   !.pending_response_ =
                       ArrayValue([i \in 1..(Len(incoming_request.arr) - 1) |->
                                       DefaultRespValue])]]
        w1 == MGETSubmit(w0, request_map, order, 0, down)
    IN  IF Positive(w1.req.num_pending_responses_) THEN w1 ELSE FragmentedDestructor(w1)

-----------------------------------------------------------------------------
(* MSETRequest *)

\* MSETRequest::create, lines 228-242: host -> the (key, value, original index)
\* triples of its keys, in the order of the request.  i is the loop variable.
RECURSIVE MSETRequestMap(_, _, _)
MSETRequestMap(incoming_request, i, request_map) ==
    IF i >= Len(incoming_request.arr) THEN request_map
    ELSE LET key == incoming_request.arr[i + 1].str
             value == incoming_request.arr[i + 2].str
             host == getHost[key]
             command_and_index == [key |-> key, value |-> value, index |-> i - 1]
         IN  MSETRequestMap(incoming_request, i + 2,
                 IF host \in DOMAIN request_map
                 THEN [request_map EXCEPT ![host] = Append(@, command_and_index)]
                 ELSE request_map @@ (host :> <<command_and_index>>))

\* Mutant: a failed fragment counts once, however many keys it has.
MSETCountPerFragment(w, value, response_indexes) ==
    IF value.type = "SimpleString" /\ value.str = S("OK") THEN w
    ELSE [w EXCEPT !.req.error_count_ = @ + 1]

\* Lines 291-302: a child response that is not SimpleString "OK" counts every
\* key of its fragment.
MSETCount(w, value, response_indexes) ==
    IF value.type = "SimpleString" /\ value.str = S("OK") THEN w
    ELSE [w EXCEPT !.req.error_count_ = @ + Len(response_indexes)]

\* Mutant: the reply is delivered when one response is still pending.
MSETFinishEarly(w) ==
    LET w2 == [w EXCEPT !.req.num_pending_responses_ = @ - 1]
    IN  IF w2.req.num_pending_responses_ <= 1
        THEN CallbacksOnResponse(w2,
                 IF w2.req.error_count_ = 0 THEN SimpleString(S("OK"))
                 ELSE makeError(S("finished with errors")))
        ELSE w2

\* Lines 304-313.
MSETFinish(w) ==
    LET w1 == ASSERT(w, Positive(w.req.num_pending_responses_))
        w2 == [w1 EXCEPT !.req.num_pending_responses_ = Decrement(@)]
    IN  IF w1.aborted THEN w1
        ELSE IF w2.req.num_pending_responses_ = 0
             THEN IF w2.req.error_count_ = 0
                  THEN [CallbacksOnResponse(w2,
                            [w2.req.pending_response_ EXCEPT !.str = S("OK")])
                           EXCEPT !.req.pending_response_ = NullPtr]
                  ELSE CallbacksOnResponse(w2,
                           makeError(FinishedWithErrorsMessage(w2.req.error_count_)))
             ELSE w2

\* An onChildResponse that leaves the fragment's handle set.
MSETonChildResponseKeepsHandle(w, value, index) ==
    MSETFinish(MSETCount(w, value, w.req.pending_requests_[index + 1].response_indexes_))

\* MSETRequest::onChildResponse
MSETonChildResponse(w, value, index) ==
    LET response_indexes == w.req.pending_requests_[index + 1].response_indexes_
        w0 == [w EXCEPT !.req.pending_requests_[index + 1].handle_ = 0]
    IN  MSETFinish(MSETCount(w0, value, response_indexes))

\* Lines 257-283: one fragment per entry of request_map, in iteration order.
RECURSIVE MSETSubmit(_, _, _, _, _)
MSETSubmit(w, request_map, order, request_index, down) ==
    IF request_index >= Len(order) THEN w
    ELSE LET command_index_pairs == request_map[order[request_index + 1]]
             mset == Command(<<"M","S","E","T">>,
                             [j \in 1..(2 * Len(command_index_pairs)) |->
                                 IF j % 2 = 1
                                 THEN command_index_pairs[(j + 1) \div 2].key
                                 ELSE command_index_pairs[j \div 2].value])
             response_indexes ==
                 [i \in 1..Len(command_index_pairs) |-> command_index_pairs[i].index]
             w1 == PoolMakeRequest(w, mset.arr[2].str, mset, request_index, down)
             w2 == [w1 EXCEPT !.req.pending_requests_ = Append(@,
                        [index_ |-> request_index, response_indexes_ |-> response_indexes,
                         handle_ |-> PoolLastHandle(w1)])]
             w3 == IF PoolLastHandle(w1) = 0
                   THEN MSETonChildResponse(w2, makeError(S("no upstream host")),
                                            request_index)
                   ELSE w2
         IN  MSETSubmit(w3, request_map, order, request_index + 1, down)

\* A create that returns the request object even when every fragment was
\* answered inside it.
MSETRequestCreateAlwaysReturns(w, incoming_request, order, down) ==
    IF (Len(incoming_request.arr) - 1) % 2 # 0
    THEN onWrongNumberOfArguments(w, incoming_request)
    ELSE LET request_map == MSETRequestMap(incoming_request, 1, <<>>)
             w0 == [w EXCEPT !.getHost_calls = @ + GetHostCalls(request_map),
                             !.req = [NoRequest EXCEPT
                        !.variant = "mset", !.state = "alive",
                        !.num_pending_responses_ = Cardinality(DOMAIN request_map),
                        !.pending_response_ = RespValue("SimpleString")]]
         IN  MSETSubmit(w0, request_map, order, 0, down)

\* MSETRequest::create
MSETRequestCreate(w, incoming_request, order, down) ==
    IF (Len(incoming_request.arr) - 1) % 2 # 0
    THEN onWrongNumberOfArguments(w, incoming_request)
    ELSE LET request_map == MSETRequestMap(incoming_request, 1, <<>>)
             w0 == [w EXCEPT !.getHost_calls = @ + GetHostCalls(request_map),
                             !.req = [NoRequest EXCEPT
                        !.variant = "mset", !.state = "alive",
                        !.num_pending_responses_ = Cardinality(DOMAIN request_map),
                        !.pending_response_ = RespValue("SimpleString")]]
             w1 == MSETSubmit(w0, request_map, order, 0, down)
         IN  IF Positive(w1.req.num_pending_responses_) THEN w1 ELSE FragmentedDestructor(w1)

\* FragmentedRequest::onChildFailure, dispatched to the variant's onChildResponse.
onChildResponse(w, value, index, padding) ==
    IF w.req.variant = "mget" THEN MGETonChildResponse(w, value, index, padding)
    ELSE MSETonChildResponse(w, value, index)

onChildFailure(w, index) ==
    onChildResponse(w, makeError(S("upstream failure")), index, <<>>)

-----------------------------------------------------------------------------
(* InstanceImpl *)

\* InstanceImpl::onInvalidRequest, the reply.
onInvalidRequest(w) == CallbacksOnResponse(w, makeError(S("invalid request")))

\* Lines 412-422: the envelope is an array of at least two bulk strings.
ValidEnvelope(request) ==
    /\ ~(request.type # "Array" \/ Len(request.arr) < 2)
    /\ \A i \in 1..Len(request.arr) : request.arr[i].type = "BulkString"

\* A lookup under the name as the client spelled it.
FindHandlerExact(request) ==
    IF request.arr[1].str \in DOMAIN command_map_ THEN command_map_[request.arr[1].str]
    ELSE "none"

\* Lines 424-427: the handler registered under the lower-cased name, or "none".
FindHandler(request) ==
    LET to_lower_string == toLowerCase(request.arr[1].str)
    IN  IF to_lower_string \in DOMAIN command_map_ THEN command_map_[to_lower_string]
        ELSE "none"

\* CommandHandler::startRequest of the handler found.
startRequest(w, handler, request, order, down) ==
    CASE handler = "simple" -> SimpleRequestCreate(w, request, down)
      [] handler = "eval" -> EvalRequestCreate(w, request, down)
      [] handler = "mget" -> MGETRequestCreate(w, request, order, down)
      [] handler = "mset" -> MSETRequestCreate(w, request, order, down)

\* The request_map a handler would build, for the choice of its iteration order.
RequestMapOf(request) ==
    IF ~ValidEnvelope(request) THEN <<>>
    ELSE CASE FindHandler(request) = "mget" -> MGETRequestMap(request, 1, <<>>)
           [] FindHandler(request) = "mset" /\ (Len(request.arr) - 1) % 2 = 0 ->
                  MSETRequestMap(request, 1, <<>>)
           [] OTHER -> <<>>

\* A splitter that looks the command up before it has checked every element.
makeRequestLookupFirst(w, request, order, down) ==
    IF request.type # "Array" \/ Len(request.arr) < 2 THEN onInvalidRequest(w)
    ELSE IF request.arr[1].type = "BulkString" /\ FindHandler(request) = "none"
         THEN CallbacksOnResponse(w,
                  makeError(UnsupportedCommandMessage(request.arr[1].str)))
         ELSE IF ~ValidEnvelope(request) THEN onInvalidRequest(w)
              ELSE startRequest(w, FindHandler(request), request, order, down)

\* What the world is after InstanceImpl::makeRequest(request, callbacks).
makeRequest(w, request, order, down) ==
    IF ~ValidEnvelope(request) THEN onInvalidRequest(w)
    ELSE IF FindHandler(request) = "none"
         THEN CallbacksOnResponse(w,
                  makeError(UnsupportedCommandMessage(request.arr[1].str)))
         ELSE startRequest(w, FindHandler(request), request, order, down)

SetWorld(w) ==
    /\ req' = w.req
    /\ callbacks' = w.callbacks
    /\ owned_at_reply' = w.owned_at_reply
    /\ getHost_calls' = w.getHost_calls
    /\ pool' = w.pool
    /\ assert_failed' = w.assert_failed
    /\ aborted' = w.aborted

-----------------------------------------------------------------------------
(* Actions *)

Init ==
    /\ NDEBUG \in BOOLEAN
    /\ getHost \in [Keys -> Hosts]
    /\ invalid_request_ = 0
    /\ unsupported_command_ = 0
    /\ total_ = [name \in DOMAIN command_map_ |-> 0]
    /\ incoming = NullPtr
    /\ returned = "nothing"
    /\ req = NoRequest
    /\ cancelled = FALSE
    /\ callbacks = <<>>
    /\ owned_at_reply = <<>>
    /\ getHost_calls = 0
    /\ pool = <<>>
    /\ assert_failed = FALSE
    /\ aborted = FALSE

\* The caller: InstanceImpl::makeRequest(request, callbacks), with the pool's
\* hosts in `down` unavailable and the handler's map iterated in `order`.
MakeRequest(request, order, down) ==
    /\ returned = "nothing"
    /\ incoming' = request
    /\ invalid_request_' = IF ValidEnvelope(request) THEN invalid_request_
                           ELSE invalid_request_ + 1
    /\ unsupported_command_' =
           IF ValidEnvelope(request) /\ FindHandler(request) = "none"
           THEN unsupported_command_ + 1 ELSE unsupported_command_
    /\ total_' = IF ValidEnvelope(request) /\ FindHandler(request) # "none"
                 THEN [total_ EXCEPT ![toLowerCase(request.arr[1].str)] = @ + 1]
                 ELSE total_
    /\ LET w == makeRequest(World, request, order, down)
       IN  /\ SetWorld(w)
           /\ returned' = IF w.req.state = "alive" THEN "request" ELSE "nullptr"
    /\ UNCHANGED <<NDEBUG, getHost, cancelled>>

\* What the pool may answer on handle h.
ReplyValues(h) ==
    IF pool[h].request.arr[1].str = <<"M","G","E","T">>
    THEN UpstreamReplies(Len(pool[h].request.arr) - 1)
    ELSE ScalarReplies \cup WellFormedArrays(1)

\* What a read past the end of a vector may find.
GarbageElements == ElementReplies \cup { IntegerValue(5) }

\* The reads past the end when handle h is answered with `value`: only a too
\* short array in a build without ASSERT gets that far.
Paddings(h, value) ==
    IF /\ NDEBUG
       /\ req.variant = "mget"
       /\ value.type = "Array"
       /\ Len(value.arr) < Len(pool[h].request.arr) - 1
    THEN [1..(Len(pool[h].request.arr) - 1 - Len(value.arr)) -> GarbageElements]
    ELSE { <<>> }

\* The pool calls onResponse(value) on the callbacks of live handle h.  On a
\* request that was destroyed with the handle live this is a use after free:
\* the handler runs on the freed object, or the process dies.
PoolOnResponse(h, value, padding) ==
    /\ ~aborted
    /\ pool[h].state = "inflight"
    /\ LET w0 == PoolAnswered(World, h, "response", value)
       IN  \/ SetWorld(IF pool[h].child = -1
                       THEN SingleServerOnResponse(w0, value)
                       ELSE onChildResponse(w0, value, pool[h].child, padding))
           \/ /\ req.state = "destroyed"
              /\ SetWorld([w0 EXCEPT !.aborted = TRUE])
    /\ UNCHANGED <<NDEBUG, getHost, invalid_request_, unsupported_command_, total_,
                   incoming, returned, cancelled>>

\* The pool calls onFailure() on the callbacks of live handle h.
PoolOnFailure(h) ==
    /\ ~aborted
    /\ pool[h].state = "inflight"
    /\ LET w0 == PoolAnswered(World, h, "failure", NullPtr)
       IN  \/ SetWorld(IF pool[h].child = -1
                       THEN SingleServerOnFailure(w0)
                       ELSE onChildFailure(w0, pool[h].child))
           \/ /\ req.state = "destroyed"
              /\ SetWorld([w0 EXCEPT !.aborted = TRUE])
    /\ UNCHANGED <<NDEBUG, getHost, invalid_request_, unsupported_command_, total_,
                   incoming, returned, cancelled>>

\* The caller holds the request and no reply was delivered yet.
Pending == returned = "request" /\ req.state = "alive" /\ callbacks = <<>>

\* SplitRequest::cancel() of the variant.
cancel(w) ==
    IF w.req.variant \in {"simple", "eval"} THEN SingleServerCancel(w)
    ELSE FragmentedCancel(w)

\* The caller cancels a pending request.
Cancel ==
    /\ ~aborted
    /\ Pending
    /\ ~cancelled
    /\ cancelled' = TRUE
    /\ SetWorld(cancel(World))
    /\ UNCHANGED <<NDEBUG, getHost, invalid_request_, unsupported_command_, total_,
                   incoming, returned>>

\* The destructor of the variant.
destructor(w) ==
    IF w.req.variant \in {"simple", "eval"} THEN SingleServerDestructor(w)
    ELSE FragmentedDestructor(w)

\* The caller drops the SplitRequestPtr.
Destroy ==
    /\ ~aborted
    /\ returned = "request"
    /\ req.state = "alive"
    /\ SetWorld(destructor(World))
    /\ UNCHANGED <<NDEBUG, getHost, invalid_request_, unsupported_command_, total_,
                   incoming, returned, cancelled>>

Next ==
    \/ /\ returned = "nothing"
       /\ \E request \in Requests, down \in SUBSET Hosts :
              \E order \in IterationOrders(RequestMapOf(request)) :
                  MakeRequest(request, order, down)
    \/ \E h \in 1..Len(pool) :
           \E value \in ReplyValues(h) :
               \E padding \in Paddings(h, value) : PoolOnResponse(h, value, padding)
    \/ \E h \in 1..Len(pool) : PoolOnFailure(h)
    \/ Cancel
    \/ Destroy

Spec == Init /\ [][Next]_vars

-----------------------------------------------------------------------------
(* What the claims speak of *)

\* A fan-out request (MGET or MSET) was built.
FanOut == req.variant \in {"mget", "mset"}

\* Pool handles that may still fire.
InFlight == { h \in 1..Len(pool) : pool[h].state = "inflight" }

\* No assertion was tripped and the process lives.
Sound == ~aborted /\ ~assert_failed

\* The child response fragment h got: from the upstream, or made up by the
\* splitter when the pool gave no handle or reported a failure.
ChildValue(h) ==
    CASE pool[h].state = "none" -> makeError(S("no upstream host"))
      [] pool[h].outcome = "failure" -> makeError(S("upstream failure"))
      [] OTHER -> pool[h].reply

\* Fragment h has had its child response.
Answered(h) == pool[h].state \in {"none", "answered"}

\* The pool request that serves the keys of `host`.
FragmentOfHost(host) == CHOOSE h \in 1..Len(pool) : getHost[pool[h].key] = host

\* MGET: the i-th key of the incoming request (i from 1), the number of keys,
\* and the keys' positions that share the host of fragment h.
MGETKey(i) == incoming.arr[i + 1].str
MGETKeyCount == Len(incoming.arr) - 1
MGETPositions(h) == { i \in 1..MGETKeyCount : getHost[MGETKey(i)] = getHost[pool[h].key] }

\* The place of the i-th key inside its fragment: it is the n-th key of its host.
RankInFragment(i) ==
    Cardinality({ j \in 1..i : getHost[MGETKey(j)] = getHost[MGETKey(i)] })

\* The slots of the MGET reply: in pending_response_ until it is delivered.
Slots(cb, r) == IF cb # <<>> THEN cb[1].arr ELSE r.pending_response_.arr

\* MSET: the key of the p-th pair of the incoming request, and the number of pairs.
MSETKey(p) == incoming.arr[2 * p].str
MSETPairCount == (Len(incoming.arr) - 1) \div 2

-----------------------------------------------------------------------------
(* C1 *)

\* C1: a request the caller never cancels gets SplitCallbacks.onResponse
\* exactly once: never twice, and once the pool has fired the terminal callback
\* of every handle it returned (none is left in flight) exactly one reply has
\* been delivered, on every path of makeRequest.  Runs that end in a fatal
\* assertion (a malformed upstream array, a request dropped with live handles)
\* are outside the claim.
C1_ExactlyOnce ==
    (returned # "nothing" /\ ~cancelled /\ Sound)
        => /\ Len(callbacks) <= 1
           /\ InFlight = {} => Len(callbacks) = 1

\* An MGET of which one fragment could not be submitted and the other was
\* answered by the pool, and the reply delivered once.
C1_Witness ==
    /\ req.variant = "mget" /\ ~cancelled /\ Sound
    /\ \E h1, h2 \in 1..Len(pool) :
           pool[h1].state = "none" /\ pool[h2].state = "answered"
    /\ Len(callbacks) = 1

-----------------------------------------------------------------------------
(* C2 *)

\* Every fragment was submitted and answered by an Array of its own key count
\* whose elements are Null or BulkString.
AllWellFormed ==
    /\ Len(pool) > 0
    /\ \A h \in 1..Len(pool) :
           /\ pool[h].state = "answered" /\ pool[h].outcome = "response"
           /\ pool[h].reply.type = "Array"
           /\ Len(pool[h].reply.arr) = Cardinality(MGETPositions(h))
           /\ \A k \in 1..Len(pool[h].reply.arr) :
                  pool[h].reply.arr[k].type \in {"Null", "BulkString"}

\* C2: when every fragment of an MGET of N keys is answered by a well-formed
\* array, in whatever order, the reply is an Array of N slots and slot i holds
\* the element the upstream returned for the i-th key: the element at the
\* key's rank in the reply of the fragment of the key's host.
C2_PositionalIntegrity ==
    (req.variant = "mget" /\ Sound /\ AllWellFormed)
        => callbacks =
               << ArrayValue([i \in 1..MGETKeyCount |->
                     pool[FragmentOfHost(getHost[MGETKey(i)])].reply.arr[RankInFragment(i)]]) >>

\* MGET k1 k2 k3 with k1 and k3 on one host and k2 on another, the first host
\* answering [x, Null] and the second [x]: the reply is [x, x, Null].
C2_Witness ==
    /\ req.variant = "mget" /\ Sound /\ AllWellFormed
    /\ MGETKeyCount = 3 /\ Len(pool) = 2
    /\ getHost[MGETKey(1)] = getHost[MGETKey(3)]
    /\ getHost[MGETKey(1)] # getHost[MGETKey(2)]
    /\ Len(callbacks) = 1
    /\ callbacks[1].arr = <<BulkString(S("x")), BulkString(S("x")), RespValue("Null")>>

-----------------------------------------------------------------------------
(* C3 *)

\* C3: once the caller has cancelled a pending request, single-server or
\* fan-out, with any fragments already answered, every pool handle the request
\* owns is cleared and, in every state that follows, no reply has been given to
\* SplitCallbacks.
C3_CancelClearsAndSilences ==
    cancelled
        => /\ req.handle_ = 0
           /\ \A i \in 1..Len(req.pending_requests_) : req.pending_requests_[i].handle_ = 0
           /\ callbacks = <<>>

\* A fan-out request cancelled after one fragment was answered and while
\* another was in flight.
C3_Witness ==
    /\ cancelled /\ FanOut
    /\ \E h1, h2 \in 1..Len(pool) :
           pool[h1].state = "answered" /\ pool[h2].state = "cancelled"

-----------------------------------------------------------------------------
(* C4 *)

\* C4: the step in which a pending MGET or MSET is cancelled calls cancel()
\* once on every pool handle that is in flight and on no other: not on a
\* fragment already answered, not on one the pool took no handle for.
C4_CancelOncePerOutstanding ==
    [][(FanOut /\ ~cancelled /\ cancelled')
          => \A h \in 1..Len(pool) :
                 pool'[h].cancels =
                     IF pool[h].state = "inflight" THEN pool[h].cancels + 1
                     ELSE pool[h].cancels]_vars

\* A cancelled fan-out request with one fragment cancelled once and another,
\* answered before, never cancelled.
C4_Witness ==
    /\ cancelled /\ FanOut
    /\ \E h1, h2 \in 1..Len(pool) :
           /\ pool[h1].state = "cancelled" /\ pool[h1].cancels = 1
           /\ pool[h2].state = "answered" /\ pool[h2].cancels = 0

-----------------------------------------------------------------------------
(* C5 *)

\* The pairs of the incoming MSET whose fragment was not answered SimpleString "OK".
MSETFailedPairs ==
    { p \in 1..MSETPairCount :
        ChildValue(FragmentOfHost(getHost[MSETKey(p)])) # SimpleString(S("OK")) }

\* C5: when every fragment of an MSET has had its child response, in whatever
\* order, the reply is SimpleString "OK" if every child response is SimpleString
\* "OK", and otherwise Error "finished with K error(s)", K being the number of
\* keys in the fragments that were answered anything else.
C5_MSETReply ==
    (req.variant = "mset" /\ Sound /\ ~cancelled /\ \A h \in 1..Len(pool) : Answered(h))
        => callbacks =
               << IF MSETFailedPairs = {} THEN SimpleString(S("OK"))
                  ELSE makeError(<<"finished with ",
                                   ToString(Cardinality(MSETFailedPairs)), " error(s)">>) >>

\* An MSET of three pairs over two fragments, the fragment of two keys answered
\* by an Error and the other by OK: "finished with 2 error(s)".
C5_Witness ==
    /\ req.variant = "mset" /\ Sound /\ ~cancelled
    /\ MSETPairCount = 3 /\ Len(pool) = 2
    /\ \A h \in 1..Len(pool) : pool[h].state = "answered"
    /\ Cardinality(MSETFailedPairs) = 2
    /\ callbacks = << makeError(<<"finished with ", "2", " error(s)">>) >>

-----------------------------------------------------------------------------
(* C6 *)

\* C6: for MGET and MSET the reply has been delivered exactly when no fragment
\* is left without its child response: not before the last one, and in the
\* step that processes the last one, whatever the order of arrival.
C6_ReplyAtLastChild ==
    (FanOut /\ Sound /\ ~cancelled)
        => (callbacks # <<>> <=> \A h \in 1..Len(pool) : Answered(h))

\* Two fragments, both answered by the pool, and the reply delivered.
C6_Witness ==
    /\ FanOut /\ Sound /\ ~cancelled
    /\ Len(pool) = 2
    /\ \A h \in 1..Len(pool) : pool[h].state = "answered"
    /\ Len(callbacks) = 1

-----------------------------------------------------------------------------
(* C7 *)

\* The keys of the incoming MGET or MSET, and their hosts.
IncomingKeys ==
    IF req.variant = "mget" THEN { MGETKey(i) : i \in 1..MGETKeyCount }
    ELSE { MSETKey(p) : p \in 1..MSETPairCount }
IncomingHosts == { getHost[k] : k \in IncomingKeys }

\* C7: MGET and MSET build one fragment, and send one pool request, per
\* distinct host of the request's keys; num_pending_responses_ starts at that
\* number, so it is that number less the fragments that had their child
\* response; and when all keys share a host the single pool request carries all
\* the arguments of the incoming request in their order.
C7_OneFragmentPerHost ==
    (FanOut /\ ~aborted)
        => /\ Len(req.pending_requests_) = Cardinality(IncomingHosts)
           /\ Len(pool) = Cardinality(IncomingHosts)
           /\ \A host \in IncomingHosts :
                  Cardinality({ h \in 1..Len(pool) : getHost[pool[h].key] = host }) = 1
           /\ req.num_pending_responses_ =
                  Cardinality(IncomingHosts)
                      - Cardinality({ h \in 1..Len(pool) : Answered(h) })
           /\ Cardinality(IncomingHosts) = 1
                  => /\ Len(pool[1].request.arr) = Len(incoming.arr)
                     /\ \A j \in 2..Len(incoming.arr) :
                            pool[1].request.arr[j] = incoming.arr[j]

\* An MSET of three pairs whose keys are not all the same and share one host.
C7_Witness ==
    /\ req.variant = "mset" /\ ~aborted
    /\ MSETPairCount = 3
    /\ Cardinality(IncomingKeys) = 2
    /\ Cardinality(IncomingHosts) = 1
    /\ Len(pool) = 1

-----------------------------------------------------------------------------
(* C8 *)

\* C8, as claimed: once the request is destroyed no pool handle it created can
\* still fire, because dropping it cancels what is outstanding.
C8_DropCancels ==
    (req.state = "destroyed" /\ ~aborted) => InFlight = {}

\* C8, amended: dropping the request cancels nothing.  If cancel() was not
\* called, no pool handle has ever had cancel() called on it after the drop;
\* and a drop that leaves a handle in flight has tripped the destructor's
\* assertion (which ends the process in a debug build).
C8_DropOnlyAsserts ==
    (req.state = "destroyed" /\ ~cancelled)
        => /\ \A h \in 1..Len(pool) : pool[h].cancels = 0
           /\ InFlight # {} => assert_failed /\ (~NDEBUG => aborted)

\* A fan-out request dropped, in a build with NDEBUG, before any reply and
\* without cancel(), a fragment of it still in flight.
C8_Witness ==
    /\ req.state = "destroyed" /\ ~cancelled /\ FanOut
    /\ NDEBUG /\ ~aborted
    /\ callbacks = <<>>
    /\ InFlight # {}

-----------------------------------------------------------------------------
(* C9 *)

\* C9: when the child response of an MGET fragment is an Error or a BulkString
\* (the splitter's own "no upstream host" and "upstream failure" included),
\* every slot of that fragment has the type and the string of that response.
C9_PropagatedToEverySlot ==
    (req.variant = "mget" /\ ~aborted)
        => \A h \in 1..Len(pool) :
               (Answered(h) /\ ChildValue(h).type \in {"Error", "BulkString"})
                   => \A i \in MGETPositions(h) :
                          /\ Slots(callbacks, req)[i].type = ChildValue(h).type
                          /\ Slots(callbacks, req)[i].str = ChildValue(h).str

-----------------------------------------------------------------------------
(* C10 *)

\* C10: the step that hands an Integer, Null or SimpleString child response to
\* an MGET fragment makes every slot of that fragment Error "upstream protocol
\* error" and leaves every other slot as it was.
C10_ProtocolErrorFrame ==
    [][\A h \in 1..Len(pool) :
           (/\ req.variant = "mget"
            /\ pool[h].state = "inflight"
            /\ pool'[h].state = "answered" /\ pool'[h].outcome = "response"
            /\ pool'[h].reply.type \in {"Integer", "Null", "SimpleString"}
            /\ ~aborted')
               => \A i \in 1..MGETKeyCount :
                      Slots(callbacks', req')[i] =
                          IF i \in MGETPositions(h)
                          THEN makeError(S("upstream protocol error"))
                          ELSE Slots(callbacks, req)[i]]_vars

\* An MGET over two fragments, one answered Integer and the other an array
\* with a bulk string: the reply holds the protocol error beside the bulk string.
C10_Witness ==
    /\ req.variant = "mget" /\ Sound
    /\ \E h1, h2 \in 1..Len(pool) :
           /\ pool[h1].state = "answered" /\ pool[h1].reply = IntegerValue(5)
           /\ pool[h2].state = "answered" /\ pool[h2].reply.type = "Array"
           /\ \A i \in MGETPositions(h1) :
                  Slots(callbacks, req)[i] = makeError(S("upstream protocol error"))
           /\ \E i \in MGETPositions(h2) : Slots(callbacks, req)[i] = BulkString(S("x"))
    /\ Len(callbacks) = 1

-----------------------------------------------------------------------------
(* C11 *)

\* The step in which InstanceImpl::makeRequest runs and returns.
MakeRequestStep == returned = "nothing" /\ returned' # "nothing"

\* C11: a request that is not an Array, has fewer than two elements, or has an
\* element that is not a BulkString increments invalid_request by exactly one,
\* delivers Error("invalid request"), returns no request object, submits
\* nothing to the pool and leaves unsupported_command and every per-command
\* total unchanged, also when its first element names no known command.
C11_InvalidRequest ==
    [][(MakeRequestStep /\ ~ValidEnvelope(incoming')) =>
           /\ invalid_request_' = invalid_request_ + 1
           /\ unsupported_command_' = unsupported_command_
           /\ total_' = total_
           /\ callbacks' = Append(callbacks, makeError(S("invalid request")))
           /\ returned' = "nullptr"
           /\ pool' = pool
           /\ req' = req]_vars

\* The array [FOO, 3] was refused as invalid although FOO is no command.
C11_Witness ==
    /\ returned = "nullptr"
    /\ incoming = ArrayValue(<<BulkString(<<"F","O","O">>), IntegerValue(3)>>)
    /\ invalid_request_ = 1
    /\ callbacks = <<makeError(S("invalid request"))>>

-----------------------------------------------------------------------------
(* C12 *)

\* The command name of the incoming request as the client spelled it, and the
\* name it is registered under.
IncomingName == incoming.arr[1].str
RegisteredName == toLowerCase(IncomingName)

\* C12: an envelope-valid request is dispatched to the handler registered
\* under the ASCII-lower-cased form of its first argument, whatever the casing,
\* and that command's total goes up by exactly one; when no handler is
\* registered, unsupported_command goes up by one, the reply is
\* Error("unsupported command 'X'") with X as the client spelled it, no request
\* object is returned and nothing is submitted to the pool.
C12_Dispatch ==
    [][(MakeRequestStep /\ ValidEnvelope(incoming')) =>
           IF RegisteredName' \in DOMAIN command_map_
           THEN /\ total_' = [total_ EXCEPT ![RegisteredName'] = @ + 1]
                /\ unsupported_command_' = unsupported_command_
                /\ \E down \in SUBSET Hosts :
                       \E order \in IterationOrders(RequestMapOf(incoming')) :
                           LET w == startRequest(World, command_map_[RegisteredName'],
                                                 incoming', order, down)
                           IN  /\ req' = w.req
                               /\ callbacks' = w.callbacks
                               /\ pool' = w.pool
           ELSE /\ unsupported_command_' = unsupported_command_ + 1
                /\ callbacks' = Append(callbacks,
                       makeError(S("unsupported command '") \o IncomingName' \o S("'")))
                /\ returned' = "nullptr"
                /\ pool' = pool
                /\ req' = req]_vars

\* "GeT a" was counted under "get" and went to the pool through the handler of
\* the simple commands.
C12_Witness ==
    /\ returned = "request"
    /\ IncomingName = <<"G","e","T">>
    /\ total_[<<"g","e","t">>] = 1
    /\ req.variant = "simple"
    /\ Len(pool) = 1

-----------------------------------------------------------------------------
(* C13 *)

\* What a single-server request keyed on the element at `key_position` of the
\* incoming array (counted from 1) does: one upstream request for that key that
\* carries the incoming value as it came; while it is in flight the request
\* owns its handle and nothing was delivered; once the pool answered, the
\* handle is cleared, the one reply is the upstream value as it came (or
\* Error("upstream failure") after onFailure), and no handle was owned at the
\* moment SplitCallbacks::onResponse was called.
SingleServerContract(key_position) ==
    /\ Len(pool) = 1
    /\ pool[1].key = incoming.arr[key_position].str
    /\ pool[1].request = incoming
    /\ pool[1].state = "inflight" => req.handle_ = 1 /\ callbacks = <<>>
    /\ pool[1].state = "answered" =>
           /\ req.handle_ = 0
           /\ callbacks = << IF pool[1].outcome = "response" THEN pool[1].reply
                             ELSE makeError(S("upstream failure")) >>
           /\ owned_at_reply = << {} >>

\* C13: a SimpleRequest issues exactly one upstream request, keyed on argument
\* 1 and carrying the incoming value unchanged; onResponse(v) clears the handle
\* and delivers v unchanged; onFailure clears the handle and delivers
\* Error("upstream failure"); the handle is already cleared at the moment
\* SplitCallbacks::onResponse is invoked.
C13_SimpleRequest == (req.variant = "simple" /\ Sound) => SingleServerContract(2)

\* "SET b 1" was answered OK by the upstream and OK was delivered.
C13_Witness ==
    /\ req.variant = "simple"
    /\ Sound
    /\ Len(incoming.arr) = 3
    /\ pool[1].key = S("b")
    /\ pool[1].state = "answered"
    /\ callbacks = << SimpleString(S("OK")) >>
    /\ owned_at_reply = << {} >>

-----------------------------------------------------------------------------
(* C14 *)

\* C14: when the pool returns no handle for a simple or eval command, the
\* caller's onResponse gets Error("no upstream host") before makeRequest
\* returns, makeRequest returns no request object, and no pool handle is owned.
C14_NoUpstreamHost ==
    [][(/\ MakeRequestStep
        /\ req'.variant \in {"simple", "eval"}
        /\ pool'[1].state = "none") =>
           /\ callbacks' = << makeError(S("no upstream host")) >>
           /\ returned' = "nullptr"
           /\ OwnedHandles(req') = {}
           /\ owned_at_reply' = << {} >>
           /\ InFlight' = {}]_vars

\* "EVAL script 1 a" found the host of a down.
C14_Witness ==
    /\ returned = "nullptr"
    /\ req.variant = "eval"
    /\ Len(pool) = 1
    /\ pool[1].state = "none"
    /\ pool[1].key = S("a")
    /\ callbacks = << makeError(S("no upstream host")) >>

-----------------------------------------------------------------------------
(* C15 *)

\* C15: EVAL and EVALSHA with at least four elements issue exactly one
\* upstream request, keyed on argument 3 (the first key) and carrying the full
\* original array, whatever numkeys says and however many keys follow; from
\* there the request does what a SimpleRequest does: the handle is cleared
\* before the upstream value, or Error("upstream failure"), is delivered.
C15_EvalRequest ==
    (req.variant = "eval" /\ Sound) =>
        /\ Len(incoming.arr) >= 4
        /\ SingleServerContract(4)

\* "EvalSHA sha 2 a b arg1" went upstream whole, keyed on a alone, and its
\* answer came back as it was.
C15_Witness ==
    /\ req.variant = "eval"
    /\ Sound
    /\ Len(incoming.arr) = 6
    /\ incoming.arr[3].str = S("2")
    /\ incoming.arr[4].str = S("a")
    /\ incoming.arr[5].str = S("b")
    /\ pool[1].key = S("a")
    /\ pool[1].request = incoming
    /\ pool[1].state = "answered"
    /\ callbacks = << IntegerValue(5) >>

\* "EVAL script 0 b" is keyed on b although it declares no key.
C15_WitnessNoKeys ==
    /\ req.variant = "eval"
    /\ incoming.arr[3].str = S("0")
    /\ pool[1].key = S("b")
    /\ pool[1].state = "inflight"

-----------------------------------------------------------------------------
(* C16 *)

\* The incoming request is an EVAL or EVALSHA of fewer than four elements, or
\* an MSET with an odd number of arguments after the command name.
WrongArity ==
    /\ ValidEnvelope(incoming)
    /\ \/ RegisteredName \in evalCommands /\ Len(incoming.arr) < 4
       \/ RegisteredName = msetCommand /\ (Len(incoming.arr) - 1) % 2 = 1

\* C16: EVAL/EVALSHA with fewer than four elements, and MSET with an odd
\* number of arguments, reply Error("wrong number of arguments for 'X'
\* command") with X the name as the client spelled it, return no request
\* object, and neither call getHost nor submit anything to the pool.
C16_WrongNumberOfArguments ==
    [][(MakeRequestStep /\ WrongArity') =>
           /\ callbacks' = << makeError(S("wrong number of arguments for '")
                                            \o IncomingName' \o S("' command")) >>
           /\ returned' = "nullptr"
           /\ getHost_calls' = 0
           /\ pool' = <<>>
           /\ req' = NoRequest]_vars

\* "mSet a 1 b" was refused under the name the client used.
C16_Witness ==
    /\ returned = "nullptr"
    /\ ValidEnvelope(incoming)
    /\ IncomingName = <<"m","S","e","t">>
    /\ Len(incoming.arr) = 4
    /\ callbacks = << makeError(<<"wrong number of arguments for '",
                                  "m","S","e","t", "' command">>) >>
    /\ getHost_calls = 0
    /\ pool = <<>>

\* "EVALSHA sha 1" (three elements) was refused.
C16_WitnessEval ==
    /\ returned = "nullptr"
    /\ ValidEnvelope(incoming)
    /\ IncomingName = <<"E","V","A","L","S","H","A">>
    /\ Len(incoming.arr) = 3
    /\ Len(callbacks) = 1
    /\ pool = <<>>

\* A fan-out request that was accepted did call getHost, once per key.
C16_WitnessGetHostCalled ==
    /\ req.variant = "mset"
    /\ getHost_calls = 2
    /\ Len(incoming.arr) = 5

-----------------------------------------------------------------------------
(* C17 *)

\* The request object is destroyed in this step: by the caller, or inside
\* create when it returns nullptr.
DestructorStep == req.state # "destroyed" /\ req'.state = "destroyed"

\* A child response (or failure) of a fragment is processed in this step by a
\* request object that is alive.
ChildResponseStep ==
    /\ req.state = "alive"
    /\ \E h \in InFlight : pool[h].child # -1 /\ pool'[h].state = "answered"

\* C17: for every variant, a request destroyed after its reply was delivered
\* (also when a fan-out completes inside create) or after cancel() owns no
\* live handle, so the destructor's ASSERT holds; and the ASSERT that
\* num_pending_responses_ is positive holds at every child response that is
\* processed, those made up inside create included.  No handle is owned at
\* the moment of a reply either, so a caller that destroys the request from
\* within its onResponse is covered.
C17_AssertsHold ==
    [][/\ (DestructorStep /\ (callbacks' # <<>> \/ cancelled)) =>
              /\ OwnedHandles(req') = {}
              /\ assert_failed' = assert_failed
       /\ ChildResponseStep => Positive(req.num_pending_responses_)
       /\ MakeRequestStep => ~assert_failed'
       /\ \A n \in DOMAIN owned_at_reply' : owned_at_reply'[n] = {}]_vars

\* An MGET over two hosts was answered, its reply delivered, and the request
\* then destroyed by the caller with every assertion holding.
C17_Witness ==
    /\ req.variant = "mget"
    /\ req.state = "destroyed"
    /\ returned = "request"
    /\ ~cancelled
    /\ Len(pool) = 2
    /\ Len(callbacks) = 1
    /\ ~assert_failed

\* An MSET over two hosts both down completed inside create.
C17_WitnessInCreate ==
    /\ req.variant = "mset"
    /\ req.state = "destroyed"
    /\ returned = "nullptr"
    /\ Len(pool) = 2
    /\ Len(callbacks) = 1
    /\ ~assert_failed

\* A cancelled request of two live fragments was destroyed.
C17_WitnessCancelled ==
    /\ FanOut
    /\ req.state = "destroyed"
    /\ cancelled
    /\ Len(pool) = 2
    /\ \A h \in 1..2 : pool[h].state = "cancelled"
    /\ ~assert_failed

\* A simple request was destroyed after its reply.
C17_WitnessSimple ==
    /\ req.variant = "simple"
    /\ req.state = "destroyed"
    /\ returned = "request"
    /\ Len(callbacks) = 1
    /\ ~assert_failed

-----------------------------------------------------------------------------
(* C18 *)

\* The PendingRequests of the request whose pool handle is still set.
LiveFragments == Cardinality(OwnedHandles(req))

\* A fan-out request object exists, between two operations of a live process.
FanOutAtRest == FanOut /\ req.state = "alive" /\ ~aborted

\* num_pending_responses_ is zero after this step and was not before it (or
\* the request did not exist before it).
ReachesZero ==
    /\ FanOut'
    /\ req'.num_pending_responses_ = 0
    /\ ~(FanOut /\ req.num_pending_responses_ = 0)

\* The aggregated reply is handed to the caller in this step.
ReplyDispatched == FanOut' /\ Len(callbacks') = Len(callbacks) + 1

\* C18 as stated: in every state of an MGET or MSET request between two
\* operations (after startRequest, across child responses, child failures and
\* cancel) num_pending_responses_ equals the number of PendingRequests whose
\* handle is still live; it reaches 0 exactly once, in the step in which the
\* aggregated reply is dispatched.
C18_PendingEqualsLive ==
    [][/\ FanOutAtRest' => req'.num_pending_responses_ = LiveFragments'
       /\ ReachesZero <=> ReplyDispatched
       /\ (FanOut /\ req.num_pending_responses_ = 0) =>
              req'.num_pending_responses_ = 0]_vars

\* C18, amended: the count equals the number of live handles in every state
\* up to cancel(); cancel() clears every handle and leaves the count as it
\* was, so from then on the count is positive while no handle is live, it
\* never reaches 0 and no reply is dispatched.  Without cancel() the count
\* reaches 0 exactly once, in the step in which the reply is dispatched.
C18_PendingEqualsLiveUntilCancel ==
    [][/\ (FanOutAtRest' /\ ~cancelled') => req'.num_pending_responses_ = LiveFragments'
       /\ (FanOutAtRest' /\ cancelled') =>
              /\ LiveFragments' = 0
              /\ Positive(req'.num_pending_responses_)
              /\ req'.num_pending_responses_ = req.num_pending_responses_
              /\ callbacks' = <<>>
       /\ ReachesZero <=> ReplyDispatched
       /\ (FanOut /\ req.num_pending_responses_ = 0) =>
              req'.num_pending_responses_ = 0]_vars

\* A fan-out over two hosts was cancelled with both fragments in flight: no
\* handle is live and the count still says two.
C18_Witness ==
    /\ FanOutAtRest
    /\ cancelled
    /\ Len(pool) = 2
    /\ LiveFragments = 0
    /\ req.num_pending_responses_ = 2

\* A fan-out over two hosts, one answered and one in flight: the count is one.
C18_WitnessCounting ==
    /\ FanOutAtRest
    /\ ~cancelled
    /\ Len(pool) = 2
    /\ pool[1].state = "answered"
    /\ pool[2].state = "inflight"
    /\ req.num_pending_responses_ = 1
    /\ LiveFragments = 1

-----------------------------------------------------------------------------
(* C19 *)

\* C19: with a pool that never calls a child callback from inside its
\* makeRequest, InstanceImpl::makeRequest returns no request object if and
\* only if SplitCallbacks::onResponse was invoked before it returned; when it
\* returns a request object, onResponse was not invoked yet and the object
\* owns at least one live pool handle, also for an MGET or MSET of which some
\* but not all fragments found no upstream host.
C19_NoneIffAnswered ==
    [][MakeRequestStep =>
           /\ returned' = "nullptr" <=> callbacks' # <<>>
           /\ returned' = "request" =>
                  /\ callbacks' = <<>>
                  /\ req'.state = "alive"
                  /\ OwnedHandles(req') # {}
                  /\ OwnedHandles(req') = InFlight']_vars

\* An MSET over two hosts, the first down: the request object is returned,
\* nothing was delivered yet, and it owns the handle of the second fragment.
C19_Witness ==
    /\ returned = "request"
    /\ req.variant = "mset"
    /\ Len(pool) = 2
    /\ pool[1].state = "none"
    /\ pool[2].state = "inflight"
    /\ OwnedHandles(req) = {2}
    /\ callbacks = <<>>

\* An MGET over two hosts, both down: answered inside makeRequest, which
\* returned nothing.
C19_WitnessNone ==
    /\ returned = "nullptr"
    /\ req.variant = "mget"
    /\ Len(pool) = 2
    /\ Len(callbacks) = 1
    /\ InFlight = {}

-----------------------------------------------------------------------------
(* C20 *)

\* The positions of the keys of the incoming request, counted from 0 over the
\* arguments after the command name: 0, 1, 2, ... for MGET and 0, 2, 4, ... for
\* MSET, whose values sit in between.
Stride == IF req.variant = "mget" THEN 1 ELSE 2
KeyPositions == { Stride * p : p \in 0..(((Len(incoming.arr) - 1) \div Stride) - 1) }
KeyAt(position) == incoming.arr[position + 2].str
ValueAt(position) == incoming.arr[position + 3].str

\* The response_indexes of fragment h, and the i-th key and value of the
\* request the pool got for it.
ResponseIndexes(h) == req.pending_requests_[h].response_indexes_
FragmentKey(h, i) == pool[h].request.arr[Stride * (i - 1) + 2].str
FragmentValue(h, i) == pool[h].request.arr[Stride * (i - 1) + 3].str

\* C20: the fragments of an MGET or MSET partition the keys of the request:
\* every original key position is in the response_indexes of exactly one
\* fragment; all keys of a fragment have the same getHost; the keys of a
\* fragment (with their values for MSET) keep the relative order they had in
\* the incoming request; the i-th entry of response_indexes is the original
\* position of the fragment's i-th key; and each fragment is submitted to the
\* pool keyed on its own first key.
C20_FragmentsPartitionKeys ==
    FanOut =>
        /\ Len(pool) = Len(req.pending_requests_)
        /\ \A position \in KeyPositions :
               Cardinality({ h \in 1..Len(pool) :
                   \E i \in DOMAIN ResponseIndexes(h) :
                       ResponseIndexes(h)[i] = position }) = 1
        /\ \A h \in 1..Len(pool) :
               /\ pool[h].child = req.pending_requests_[h].index_
               /\ Len(ResponseIndexes(h)) >= 1
               /\ Len(pool[h].request.arr) = Stride * Len(ResponseIndexes(h)) + 1
               /\ toLowerCase(pool[h].request.arr[1].str) = RegisteredName
               /\ pool[h].key = FragmentKey(h, 1)
               /\ \A i \in DOMAIN ResponseIndexes(h) :
                      /\ ResponseIndexes(h)[i] \in KeyPositions
                      /\ FragmentKey(h, i) = KeyAt(ResponseIndexes(h)[i])
                      /\ req.variant = "mset" =>
                             FragmentValue(h, i) = ValueAt(ResponseIndexes(h)[i])
                      /\ getHost[FragmentKey(h, i)] = getHost[pool[h].key]
               /\ \A i, j \in DOMAIN ResponseIndexes(h) :
                      i < j => ResponseIndexes(h)[i] < ResponseIndexes(h)[j]

\* "MGET a b a" with a and b on different hosts: one fragment has the keys at
\* positions 0 and 2, the other the key at position 1.
C20_Witness ==
    /\ req.variant = "mget"
    /\ Len(incoming.arr) = 4
    /\ Len(pool) = 2
    /\ \E h \in 1..2 :
           /\ ResponseIndexes(h) = <<0, 2>>
           /\ ResponseIndexes(3 - h) = <<1>>
           /\ pool[h].key = S("a")
           /\ pool[3 - h].key = S("b")
           /\ Len(pool[h].request.arr) = 3

\* "MSET b 1 a 2 b 3" over two hosts: the fragment of b carries b 1 b 3 and the
\* positions 0 and 4, the fragment of a carries a 2 and the position 2.
C20_WitnessMSET ==
    /\ req.variant = "mset"
    /\ Len(incoming.arr) = 7
    /\ Len(pool) = 2
    /\ \E h \in 1..2 :
           /\ ResponseIndexes(h) = <<0, 4>>
           /\ ResponseIndexes(3 - h) = <<2>>
           /\ pool[h].request =
                  Command(<<"M","S","E","T">>, <<S("b"), S("1"), S("b"), S("3")>>)
           /\ pool[3 - h].request = Command(<<"M","S","E","T">>, <<S("a"), S("2")>>)

====
